---- MODULE Spec2Model ----
(***************************************************************************)
(* Model of the Wix HTTP functions post_imageBulkUploader,                 *)
(* post_uploadImageToItem and post_updateItemField, and of the media event *)
(* handler wixMediaManager_onFileUploaded.                                 *)
(*                                                                         *)
(* A behaviour is one HTTP request handled from arrival to response, cut   *)
(* at the handler's await points, together with the media events the       *)
(* platform delivers and the promise chains the event handler starts.      *)
(***************************************************************************)
EXTENDS Integers, Sequences, FiniteSets, TLC

(***************************************************************************)
(* JavaScript values, tagged by type so that === is equality of the tagged *)
(* value.                                                                  *)
(***************************************************************************)
Undef == [t |-> "undefined"]
Null == [t |-> "null"]
Str(s) == [t |-> "string", v |-> s]
Num(n) == [t |-> "number", v |-> n]
Bool(b) == [t |-> "boolean", v |-> b]
Arr(s) == [t |-> "array", v |-> s]
Obj(f) == [t |-> "object", v |-> f]
DateOf(x) == [t |-> "date", v |-> x]

EmptyObject == Obj(<<>>)

\* The outcome of an awaited call that rejects.
Throws == [t |-> "throws"]

\* ToBoolean: the values JavaScript treats as false in !x and x || y.
Truthy(x) == ~(x \in {Undef, Null, Str(""), Num(0), Bool(FALSE)})

\* a || b
Or(a, b) == IF Truthy(a) THEN a ELSE b

IsNullish(x) == x \in {Undef, Null}

\* obj.k for an object value: a property the object lacks reads undefined.
Prop(o, k) == IF k \in DOMAIN o.v THEN o.v[k] ELSE Undef

\* obj?.k
OptProp(o, k) == IF IsNullish(o) THEN Undef ELSE Prop(o, k)

\* Array.isArray(value)
IsArray(x) == x.t = "array"

(***************************************************************************)
(* Strings.                                                                *)
(***************************************************************************)
\* key.startsWith(p)
StartsWith(s, p) == Len(s) >= Len(p) /\ SubSeq(s, 1, Len(p)) = p

\* The positions at which p occurs in s.
Occurrences(s, p) == {i \in 1..(Len(s) - Len(p) + 1) : SubSeq(s, i, i + Len(p) - 1) = p}

Min(S) == CHOOSE m \in S : \A n \in S : m <= n

\* key.replace(p, ""): removes the first occurrence of p, if there is one.
RemoveFirst(s, p) ==
    IF Occurrences(s, p) = {} THEN s
    ELSE LET i == Min(Occurrences(s, p))
         IN SubSeq(s, 1, i - 1) \o SubSeq(s, i + Len(p), Len(s))

\* s.split(sep).pop() for a one-character sep: the part after the last sep.
LastSegment(s, sep) ==
    IF Occurrences(s, sep) = {} THEN s
    ELSE LET i == CHOOSE m \in Occurrences(s, sep) : \A n \in Occurrences(s, sep) : n <= m
         IN SubSeq(s, i + 1, Len(s))

UpperChars == <<"A", "B", "C", "D", "E", "F", "G", "H", "I", "J", "K", "L", "M",
                "N", "O", "P", "Q", "R", "S", "T", "U", "V", "W", "X", "Y", "Z">>
LowerChars == <<"a", "b", "c", "d", "e", "f", "g", "h", "i", "j", "k", "l", "m",
                "n", "o", "p", "q", "r", "s", "t", "u", "v", "w", "x", "y", "z">>

LowerChar(c) ==
    IF \E i \in 1..26 : UpperChars[i] = c
    THEN LowerChars[CHOOSE i \in 1..26 : UpperChars[i] = c]
    ELSE c

RECURSIVE ToLowerCase(_)
ToLowerCase(s) ==
    IF Len(s) = 0 THEN s
    ELSE LowerChar(SubSeq(s, 1, 1)) \o ToLowerCase(SubSeq(s, 2, Len(s)))

MimeMap == [jpg |-> "image/jpeg", jpeg |-> "image/jpeg", png |-> "image/png",
            webp |-> "image/webp", gif |-> "image/gif"]

getMimeType(fileName) ==
    LET ext == ToLowerCase(LastSegment(fileName, "."))
    IN IF ext \in DOMAIN MimeMap THEN MimeMap[ext] ELSE "image/jpeg"

(***************************************************************************)
(* Responses of wix-http-functions.                                        *)
(***************************************************************************)
ok(body) == [status |-> 200, body |-> body]
badRequest(body) == [status |-> 400, body |-> body]
NoResponse == [status |-> 0]

NotAuthorized == "Not authorized"
MissingFields == "Missing required fields: collectionName, itemId, or updates"
MissingFolder == "Missing or invalid 'folderName' or 'images' array"
NotFoundMessage(itemId, collectionName) ==
    "Item with ID " \o itemId \o " not found in collection " \o collectionName
\* The message of an error the platform raises (the handlers only echo it).
PlatformError == "platform error"
JsonError == "Unexpected token in JSON"

(***************************************************************************)
(* State.                                                                  *)
(***************************************************************************)
VARIABLES
    store,            \* wix-data: the records of the collection, by _id
    writes,           \* wix-data: the updates applied to the store, in order
    references,       \* wix-data: <<itemId, fieldName>> -> the referenced ids
    media,            \* wix-media-backend: the files imported, in import order
    delivered,        \* the indices of media whose upload event has been raised
    fn,               \* the HTTP function handling the request
    pc,               \* its position: idle, auth, body, the awaited call, done
    req,              \* the request: headers and parsed body
    idx,              \* the loop position (entry of updates / images / multiRefUpdates)
    existingItem,     \* post_updateItemField: the record read
    cleanedUpdates,   \* post_updateItemField: the accumulator of the reduce
    multiRefUpdates,  \* post_updateItemField: the deferred reference operations
    updatedItem,      \* post_updateItemField: the merged record
    uploadedResults,  \* post_imageBulkUploader: the results collected
    response,         \* the HTTP response
    calls,            \* the platform calls the HTTP function has made
    tasks             \* the invocations of wixMediaManager_onFileUploaded

vars == <<store, writes, references, media, delivered, fn, pc, req, idx, existingItem,
          cleanedUpdates, multiRefUpdates, updatedItem, uploadedResults, response,
          calls, tasks>>

platformVars == <<store, writes, references, media, delivered>>
handlerVars == <<fn, pc, req, idx, existingItem, cleanedUpdates, multiRefUpdates,
                 updatedItem, uploadedResults, response, calls>>
localVars == <<existingItem, cleanedUpdates, multiRefUpdates, updatedItem, uploadedResults>>

(***************************************************************************)
(* The site: one collection with two records, and the stored secrets.      *)
(***************************************************************************)
Collection == "Products"

InitialStore ==
    [id \in {"i1", "i2"} |->
        IF id = "i1"
        THEN ("_id" :> Str("i1")) @@ ("title" :> Str("one")) @@ ("a" :> Str("old"))
        ELSE ("_id" :> Str("i2")) @@ ("title" :> Str("two"))]

\* getSecret("make_connector") in uploadImageToItem, getSecret("my_secret") in
\* codeToUpdateAnyField, whose isPermitted the bulk uploader copies.
SecretName(f) == IF f = "post_uploadImageToItem" THEN "make_connector" ELSE "my_secret"
Secrets == [make_connector |-> Str("secret1"), my_secret |-> Str("secret2")]

\* What the platform stores for an imported file: a media URL of its own.
FileUrlOf(url) == "wix:image://v1/" \o LastSegment(url, "/")

Init ==
    /\ store = InitialStore
    /\ writes = <<>>
    /\ references = <<>>
    /\ media = <<>>
    /\ delivered = {}
    /\ fn = "none"
    /\ pc = "idle"
    /\ req = [headers |-> [authorization |-> Undef, auth |-> Undef], body |-> Undef]
    /\ idx = 0
    /\ existingItem = Undef
    /\ cleanedUpdates = <<>>
    /\ multiRefUpdates = <<>>
    /\ updatedItem = <<>>
    /\ uploadedResults = <<>>
    /\ response = NoResponse
    /\ calls = <<>>
    /\ tasks = <<>>

(***************************************************************************)
(* The authorization gate.                                                 *)
(***************************************************************************)
\* A request r arrives at HTTP function f.
Arrive(f, r) ==
    /\ pc = "idle"
    /\ fn' = f
    /\ req' = r
    /\ pc' = "auth"
    /\ UNCHANGED <<platformVars, idx, localVars, response, calls, tasks>>

\* A gate that lets the request through when the secret cannot be read.
isPermitted_failsOpen(headers, secret) ==
    IF secret = Throws THEN TRUE
    ELSE Or(headers.authorization, headers.auth) = secret

\* isPermitted(headers); secret is what getSecret resolves to, or Throws.
isPermitted(headers, secret) ==
    IF secret = Throws THEN FALSE
    ELSE LET authHeader == Or(headers.authorization, headers.auth)
         IN authHeader = secret

\* if (!(await isPermitted(headers))) return badRequest({error: "Not authorized"})
AuthorizationCheck ==
    /\ pc = "auth"
    /\ \E secret \in {Secrets[SecretName(fn)], Throws} :
          /\ calls' = Append(calls, [op |-> "getSecret", name |-> SecretName(fn),
                                     threw |-> (secret = Throws)])
          /\ IF isPermitted(req.headers, secret)
             THEN /\ pc' = "body"
                  /\ UNCHANGED response
             ELSE /\ pc' = "done"
                  /\ response' = badRequest([error |-> NotAuthorized])
    /\ UNCHANGED <<platformVars, fn, req, idx, localVars, tasks>>

\* The catch block of the three HTTP functions: badRequest({error: err.message}).
Catch(message) ==
    /\ pc' = "done"
    /\ response' = badRequest([error |-> message])

(***************************************************************************)
(* wix-data, as the handlers use it.                                       *)
(***************************************************************************)
\* wixData.get(collectionName, itemId): the record, null when there is none;
\* it can reject (and does for a collection the site does not have).
GetOutcomes(collectionName, itemId) ==
    {Throws} \cup
    (IF collectionName = Str(Collection)
     THEN {IF itemId.v \in DOMAIN store THEN Obj(store[itemId.v]) ELSE Null}
     ELSE {})

\* wixData.update(collectionName, item) can succeed only for an item whose _id
\* names a record of the collection; it then replaces that record by item.
CanUpdate(collectionName, item) ==
    /\ collectionName = Str(Collection)
    /\ "_id" \in DOMAIN item
    /\ item["_id"].t = "string"
    /\ item["_id"].v \in DOMAIN store

\* An update that merges the item into the stored record, field by field.
Updated_merged(item) ==
    [store EXCEPT ![item["_id"].v] =
        [k \in DOMAIN @ \cup DOMAIN item |-> IF k \in DOMAIN item THEN item[k] ELSE @[k]]]

Updated(item) == [store EXCEPT ![item["_id"].v] = item]

\* wixData.replaceReferences(collectionName, fieldName, itemId, ids): the ids
\* become the references of that field of that item, replacing the previous.
ReplacedReferences(fieldName, itemId, ids) ==
    [k \in DOMAIN references \cup {<<itemId, fieldName>>} |->
        IF k = <<itemId, fieldName>> THEN ids ELSE references[k]]

(***************************************************************************)
(* post_updateItemField.                                                   *)
(***************************************************************************)
\* acc[key] = value
SetKey(acc, key, value) ==
    [k \in DOMAIN acc \cup {key} |-> IF k = key THEN value ELSE acc[k]]

\* { ...a, ...b }
Spread(a, b) ==
    [k \in DOMAIN a \cup DOMAIN b |-> IF k \in DOMAIN b THEN b[k] ELSE a[k]]

\* The own properties { ...x } copies: none for null or undefined.
Fields(x) == IF IsNullish(x) THEN <<>> ELSE x.v

\* A handler without the check of the record read.
NotFound_unchecked(existing) == FALSE

\* if (!existingItem) throw new Error(`Item with ID ... not found ...`)
NotFound(existing) == ~Truthy(existing)

\* A coercion by truthiness instead of the four accepted values.
SafeBool_truthy(value) == Bool(Truthy(value))

\* value === true || value === "true" || value === 1 || value === "1"
SafeBool(value) ==
    Bool(value = Bool(TRUE) \/ value = Str("true") \/ value = Num(1) \/ value = Str("1"))

\* A reduce whose refs_ branch is missing: the key falls to the pass-through.
CleanEntry_withoutRefsBranch(st, key, value) ==
    IF StartsWith(key, "date_")
    THEN [st EXCEPT !.acc = SetKey(@, RemoveFirst(key, "date_"), DateOf(value))]
    ELSE IF StartsWith(key, "safebool_")
    THEN [st EXCEPT !.acc = SetKey(@, RemoveFirst(key, "safebool_"), SafeBool(value))]
    ELSE [st EXCEPT !.acc = SetKey(@, key, value)]

\* A reduce whose refs_ branch also merges the ids into the record.
CleanEntry_refsMerged(st, key, value) ==
    IF StartsWith(key, "date_")
    THEN [st EXCEPT !.acc = SetKey(@, RemoveFirst(key, "date_"), DateOf(value))]
    ELSE IF StartsWith(key, "refs_")
    THEN IF IsArray(value)
         THEN [st EXCEPT !.acc = SetKey(@, RemoveFirst(key, "refs_"), value),
                         !.refs = Append(@, [fieldName |-> RemoveFirst(key, "refs_"),
                                              ids |-> value])]
         ELSE st
    ELSE IF StartsWith(key, "safebool_")
    THEN [st EXCEPT !.acc = SetKey(@, RemoveFirst(key, "safebool_"), SafeBool(value))]
    ELSE [st EXCEPT !.acc = SetKey(@, key, value)]

\* A reduce that puts each deferred reference operation before the earlier ones.
CleanEntry_refsPrepended(st, key, value) ==
    IF StartsWith(key, "date_")
    THEN [st EXCEPT !.acc = SetKey(@, RemoveFirst(key, "date_"), DateOf(value))]
    ELSE IF StartsWith(key, "refs_")
    THEN IF IsArray(value)
         THEN [st EXCEPT !.refs = <<[fieldName |-> RemoveFirst(key, "refs_"),
                                     ids |-> value]>> \o @]
         ELSE st
    ELSE IF StartsWith(key, "safebool_")
    THEN [st EXCEPT !.acc = SetKey(@, RemoveFirst(key, "safebool_"), SafeBool(value))]
    ELSE [st EXCEPT !.acc = SetKey(@, key, value)]

\* The callback of the reduce, on the accumulator and the list of deferred
\* reference operations: one entry [key, value] of updates.
CleanEntry(st, key, value) ==
    IF StartsWith(key, "date_")
    THEN [st EXCEPT !.acc = SetKey(@, RemoveFirst(key, "date_"), DateOf(value))]
    ELSE IF StartsWith(key, "refs_")
    THEN IF IsArray(value)
         THEN [st EXCEPT !.refs = Append(@, [fieldName |-> RemoveFirst(key, "refs_"),
                                              ids |-> value])]
         ELSE st
    ELSE IF StartsWith(key, "safebool_")
    THEN [st EXCEPT !.acc = SetKey(@, RemoveFirst(key, "safebool_"), SafeBool(value))]
    ELSE [st EXCEPT !.acc = SetKey(@, key, value)]

\* Object.entries(updates).reduce(callback, {}), with multiRefUpdates = [].
RECURSIVE Clean(_)
Clean(entries) ==
    IF entries = <<>> THEN [acc |-> <<>>, refs |-> <<>>]
    ELSE LET n == Len(entries)
         IN CleanEntry(Clean(SubSeq(entries, 1, n - 1)), entries[n].key, entries[n].value)

\* const body = await request.body.json(); the three required fields.
post_updateItemField_body ==
    /\ fn = "post_updateItemField"
    /\ pc = "body"
    /\ IF req.body = Undef
       THEN Catch(JsonError)
       ELSE IF ~Truthy(req.body.collectionName) \/ ~Truthy(req.body.itemId)
               \/ ~Truthy(req.body.updates)
       THEN Catch(MissingFields)
       ELSE pc' = "get" /\ UNCHANGED response
    /\ UNCHANGED <<platformVars, fn, req, idx, localVars, calls, tasks>>

\* const existingItem = await wixData.get(...); the not-found check; the reduce
\* and the merge, up to the call of wixData.update.
post_updateItemField_get ==
    /\ fn = "post_updateItemField"
    /\ pc = "get"
    /\ \E got \in GetOutcomes(req.body.collectionName, req.body.itemId) :
          /\ calls' = Append(calls, [op |-> "get", itemId |-> req.body.itemId,
                                     result |-> got, threw |-> (got = Throws)])
          /\ IF got = Throws
             THEN Catch(PlatformError) /\ UNCHANGED localVars
             ELSE IF NotFound(got)
             THEN /\ Catch(NotFoundMessage(req.body.itemId.v, req.body.collectionName.v))
                  /\ existingItem' = got
                  /\ UNCHANGED <<cleanedUpdates, multiRefUpdates, updatedItem, uploadedResults>>
             ELSE LET cleaned == Clean(req.body.updates.v)
                  IN /\ existingItem' = got
                     /\ cleanedUpdates' = cleaned.acc
                     /\ multiRefUpdates' = cleaned.refs
                     /\ updatedItem' = Spread(Fields(got), cleaned.acc)
                     /\ pc' = "update"
                     /\ UNCHANGED <<uploadedResults, response>>
    /\ UNCHANGED <<platformVars, fn, req, idx, tasks>>

\* await wixData.update(collectionName, updatedItem, ...), and on to the loop
\* over multiRefUpdates or to the response.
post_updateItemField_update ==
    /\ fn = "post_updateItemField"
    /\ pc = "update"
    /\ \E succeeds \in {b \in BOOLEAN : b => CanUpdate(req.body.collectionName, updatedItem)} :
          /\ calls' = Append(calls, [op |-> "update", item |-> updatedItem,
                                     threw |-> ~succeeds])
          /\ IF succeeds
             THEN /\ store' = Updated(updatedItem)
                  /\ writes' = Append(writes, [by |-> 0, item |-> updatedItem])
                  /\ IF multiRefUpdates = <<>>
                     THEN pc' = "done" /\ response' = ok([success |-> TRUE]) /\ UNCHANGED idx
                     ELSE pc' = "replaceReferences" /\ idx' = 1 /\ UNCHANGED response
             ELSE Catch(PlatformError) /\ UNCHANGED <<store, writes, idx>>
    /\ UNCHANGED <<references, media, delivered, fn, req, localVars, tasks>>

\* await wixData.replaceReferences(collectionName, ref.fieldName, itemId, ref.ids, ...)
post_updateItemField_replaceReferences ==
    /\ fn = "post_updateItemField"
    /\ pc = "replaceReferences"
    /\ LET ref == multiRefUpdates[idx]
       IN \E succeeds \in {b \in BOOLEAN : b => req.body.collectionName = Str(Collection)} :
             /\ calls' = Append(calls, [op |-> "replaceReferences",
                                        fieldName |-> ref.fieldName,
                                        itemId |-> req.body.itemId,
                                        ids |-> ref.ids, threw |-> ~succeeds])
             /\ IF succeeds
                THEN /\ references' = ReplacedReferences(ref.fieldName, req.body.itemId.v, ref.ids.v)
                     /\ IF idx = Len(multiRefUpdates)
                        THEN pc' = "done" /\ response' = ok([success |-> TRUE]) /\ UNCHANGED idx
                        ELSE idx' = idx + 1 /\ UNCHANGED <<pc, response>>
                ELSE Catch(PlatformError) /\ UNCHANGED <<references, idx>>
    /\ UNCHANGED <<store, writes, media, delivered, fn, req, localVars, tasks>>

(***************************************************************************)
(* wix-media-backend, as the handlers use it.                              *)
(***************************************************************************)
\* The file mediaManager.importFile(folder, url, options) adds to the media
\* manager; context is metadataOptions.context, undefined when none is given.
ImportedFile(folder, url, mimeType, context) ==
    [folder |-> folder, url |-> url, mimeType |-> mimeType, mediaType |-> "image",
     context |-> context, fileUrl |-> FileUrlOf(url)]

\* `image-${Date.now()}.jpg`, whatever the clock says.
GeneratedName == "image-now.jpg"

(***************************************************************************)
(* post_uploadImageToItem.                                                 *)
(***************************************************************************)
\* The entries of updates from position j on whose key starts with image_.
ImageEntriesFrom(entries, j) ==
    {k \in j..Len(entries) : StartsWith(entries[k].key, "image_")}

\* The for loop from entry j up to the next awaited importFile: entries without
\* the image_ prefix do nothing; value.split throws for a value with no split.
UploadLoopFrom(j) ==
    LET entries == req.body.updates.v
    IN IF ImageEntriesFrom(entries, j) = {}
       THEN pc' = "done" /\ response' = ok([success |-> TRUE]) /\ UNCHANGED idx
       ELSE LET k == Min(ImageEntriesFrom(entries, j))
            IN IF entries[k].value.t # "string"
               THEN Catch("value.split is not a function") /\ UNCHANGED idx
               ELSE pc' = "importFile" /\ idx' = k /\ UNCHANGED response

\* A context that names the field by the key as sent, prefix included.
ImportContext_keyAsSent(collectionName, itemId, realKey) ==
    Obj([collectionName |-> Str(collectionName), itemId |-> Str(itemId),
         fieldName |-> Str("image_" \o realKey)])

\* context: {collectionName: `${collectionName}`, itemId: `${itemId}`,
\*           fieldName: `${realKey}`}
ImportContext(collectionName, itemId, realKey) ==
    Obj([collectionName |-> Str(collectionName), itemId |-> Str(itemId),
         fieldName |-> Str(realKey)])

post_uploadImageToItem_body ==
    /\ fn = "post_uploadImageToItem"
    /\ pc = "body"
    /\ IF req.body = Undef
       THEN Catch(JsonError) /\ UNCHANGED idx
       ELSE IF ~Truthy(req.body.collectionName) \/ ~Truthy(req.body.itemId)
               \/ ~Truthy(req.body.updates)
       THEN Catch(MissingFields) /\ UNCHANGED idx
       ELSE UploadLoopFrom(1)
    /\ UNCHANGED <<platformVars, fn, req, localVars, calls, tasks>>

\* await mediaManager.importFile(`/${collectionName}`, value, {..., context}),
\* and the loop up to the next import or the response.
post_uploadImageToItem_importFile ==
    /\ fn = "post_uploadImageToItem"
    /\ pc = "importFile"
    /\ LET key == req.body.updates.v[idx].key
           value == req.body.updates.v[idx].value
           realKey == RemoveFirst(key, "image_")
           fileName == IF LastSegment(value.v, "/") = "" THEN GeneratedName
                       ELSE LastSegment(value.v, "/")
           context == ImportContext(req.body.collectionName.v, req.body.itemId.v, realKey)
           file == ImportedFile("/" \o req.body.collectionName.v, value.v,
                                getMimeType(fileName), context)
       IN \E succeeds \in BOOLEAN :
             /\ calls' = Append(calls, [op |-> "importFile", file |-> file,
                                        threw |-> ~succeeds])
             /\ IF succeeds
                THEN media' = Append(media, file) /\ UploadLoopFrom(idx + 1)
                ELSE Catch(PlatformError) /\ UNCHANGED <<media, idx>>
    /\ UNCHANGED <<store, writes, references, delivered, fn, req, localVars, tasks>>

(***************************************************************************)
(* post_imageBulkUploader.                                                 *)
(***************************************************************************)
\* The images from position j on that are not skipped for a missing publicUrl.
ImportableFrom(images, j) ==
    {k \in j..Len(images) : Truthy(images[k].publicUrl)}

\* A loop that stops at an image without publicUrl instead of skipping it.
BulkLoopFrom_break(j, results) ==
    LET images == req.body.images.v
    IN IF j > Len(images) \/ ~Truthy(images[j].publicUrl)
       THEN /\ pc' = "done"
            /\ response' = ok([success |-> TRUE, uploaded |-> results])
            /\ UNCHANGED idx
       ELSE pc' = "importFile" /\ idx' = j /\ UNCHANGED response

\* The for loop from image j up to the next awaited importFile.
BulkLoopFrom(j, results) ==
    LET images == req.body.images.v
    IN IF ImportableFrom(images, j) = {}
       THEN /\ pc' = "done"
            /\ response' = ok([success |-> TRUE, uploaded |-> results])
            /\ UNCHANGED idx
       ELSE pc' = "importFile" /\ idx' = Min(ImportableFrom(images, j)) /\ UNCHANGED response

\* A failed import handled per image: the loop goes on with the next image.
BulkImportFailed_continues == BulkLoopFrom(idx + 1, uploadedResults)

\* An importFile that rejects lands in the catch block: the loop is left.
BulkImportFailed == Catch(PlatformError) /\ UNCHANGED idx

post_imageBulkUploader_body ==
    /\ fn = "post_imageBulkUploader"
    /\ pc = "body"
    /\ IF req.body = Undef
       THEN Catch(JsonError) /\ UNCHANGED idx
       ELSE IF ~Truthy(req.body.folderName) \/ ~IsArray(req.body.images)
       THEN Catch(MissingFolder) /\ UNCHANGED idx
       ELSE BulkLoopFrom(1, <<>>)
    /\ UNCHANGED <<platformVars, fn, req, localVars, calls, tasks>>

\* await mediaManager.importFile(`/${folderName}`, publicUrl, {...}) without a
\* context, uploadedResults.push, and the loop up to the next import or the
\* response.
post_imageBulkUploader_importFile ==
    /\ fn = "post_imageBulkUploader"
    /\ pc = "importFile"
    /\ LET image == req.body.images.v[idx]
           publicUrl == image.publicUrl.v
           fileName == IF Truthy(image.imageName) THEN image.imageName.v
                       ELSE IF LastSegment(publicUrl, "/") # "" THEN LastSegment(publicUrl, "/")
                       ELSE GeneratedName
           file == ImportedFile("/" \o req.body.folderName.v, publicUrl,
                                getMimeType(fileName), Undef)
           result == [originalUrl |-> publicUrl, fileUrl |-> file.fileUrl,
                      fileName |-> LastSegment(publicUrl, "/"), mediaId |-> Len(media) + 1]
       IN \E succeeds \in BOOLEAN :
             /\ calls' = Append(calls, [op |-> "importFile", file |-> file,
                                        threw |-> ~succeeds])
             /\ IF succeeds
                THEN /\ media' = Append(media, file)
                     /\ uploadedResults' = Append(uploadedResults, result)
                     /\ BulkLoopFrom(idx + 1, Append(uploadedResults, result))
                ELSE BulkImportFailed /\ UNCHANGED <<media, uploadedResults>>
    /\ UNCHANGED <<store, writes, references, delivered, fn, req, existingItem, cleanedUpdates,
                   multiRefUpdates, updatedItem, tasks>>

(***************************************************************************)
(* wixMediaManager_onFileUploaded (backend/events.js).  An invocation is a *)
(* task: the synchronous part decides whether a promise chain starts       *)
(* (pc = "get"), nothing is done (pc = "skipped") or the handler throws    *)
(* (pc = "raised"); the chain then runs get, update on its own.            *)
(***************************************************************************)
Task(version, event, at) ==
    [version |-> version, event |-> event, pc |-> at, item |-> <<>>, ops |-> <<>>]

\* uploadImageToItem.js: the guard reads the context through ?. .
wixMediaManager_onFileUploaded(event) ==
    IF /\ Truthy(OptProp(event.context, "collectionName"))
       /\ Truthy(OptProp(event.context, "itemId"))
       /\ Truthy(OptProp(event.context, "fieldName"))
       /\ Truthy(OptProp(event.fileInfo, "fileUrl"))
    THEN Task("uploadImageToItem.js", event, "get")
    ELSE Task("uploadImageToItem.js", event, "skipped")

\* The earlier version (=== uploadImageToItem ===): it destructures the context
\* before the guard, which throws a TypeError for an undefined or null context.
wixMediaManager_onFileUploaded_part000(event) ==
    IF IsNullish(event.context)
    THEN Task("part_000", event, "raised")
    ELSE IF /\ Truthy(Prop(event.context, "collectionName"))
            /\ Truthy(Prop(event.context, "itemId"))
            /\ Truthy(Prop(event.context, "fieldName"))
            /\ Truthy(OptProp(event.fileInfo, "fileUrl"))
    THEN Task("part_000", event, "get")
    ELSE Task("part_000", event, "skipped")

Versions == {"uploadImageToItem.js", "part_000"}

\* The site has one backend/events.js: every invocation runs the same version.
Invoke(version, event) ==
    /\ \A i \in 1..Len(tasks) : tasks[i].version = version
    /\ tasks' = Append(tasks, IF version = "part_000"
                              THEN wixMediaManager_onFileUploaded_part000(event)
                              ELSE wixMediaManager_onFileUploaded(event))

\* The event the platform raises for an imported file: the context given to
\* importFile comes back; for an import without one the event has no context
\* (undefined) or an empty one.
EventsOf(file) ==
    {[context |-> c, fileInfo |-> Obj([fileUrl |-> Str(file.fileUrl)])] :
        c \in IF file.context = Undef THEN {Undef, EmptyObject} ELSE {file.context}}

\* The platform raises the upload event of an imported file, once.
FileUploaded ==
    /\ \E i \in (1..Len(media)) \ delivered :
          /\ delivered' = delivered \cup {i}
          /\ \E version \in Versions, event \in EventsOf(media[i]) : Invoke(version, event)
    /\ UNCHANGED <<store, writes, references, media, handlerVars>>

\* An assignment that keeps a value the field already has.
WithField_unlessSet(item, fieldName, fileUrl) ==
    IF fieldName \in DOMAIN item THEN item ELSE SetKey(item, fieldName, fileUrl)

\* item[fieldName] = fileInfo.fileUrl
WithField(item, fieldName, fileUrl) == SetKey(item, fieldName, fileUrl)

\* wixData.get(collectionName, itemId) of invocation i settles; then
\* item[fieldName] = fileInfo.fileUrl and wixData.update is called.  A rejected
\* get, or a null item (the assignment throws), ends in the .catch.
CallbackGet(i) ==
    /\ tasks[i].pc = "get"
    /\ LET context == tasks[i].event.context
           fileUrl == Prop(tasks[i].event.fileInfo, "fileUrl")
       IN \E got \in GetOutcomes(Prop(context, "collectionName"), Prop(context, "itemId")) :
             tasks' = [tasks EXCEPT ![i] =
                 IF got = Throws \/ ~Truthy(got)
                 THEN [@ EXCEPT !.pc = "failed", !.ops = Append(@, "get")]
                 ELSE [@ EXCEPT !.pc = "update", !.ops = Append(@, "get"),
                                !.item = WithField(got.v, Prop(context, "fieldName").v, fileUrl)]]
    /\ UNCHANGED <<platformVars, handlerVars>>

\* wixData.update(collectionName, item) of invocation i settles.
CallbackUpdate(i) ==
    /\ tasks[i].pc = "update"
    /\ \E succeeds \in {b \in BOOLEAN :
                          b => CanUpdate(Prop(tasks[i].event.context, "collectionName"),
                                         tasks[i].item)} :
          /\ tasks' = [tasks EXCEPT ![i] =
                          [@ EXCEPT !.pc = IF succeeds THEN "done" ELSE "failed",
                                    !.ops = Append(@, "update")]]
          /\ store' = IF succeeds THEN Updated(tasks[i].item) ELSE store
          /\ writes' = IF succeeds THEN Append(writes, [by |-> i, item |-> tasks[i].item])
                        ELSE writes
    /\ UNCHANGED <<references, media, delivered, handlerVars>>

(***************************************************************************)
(* The requests and events explored.                                       *)
(***************************************************************************)
MaxEntries == 3       \* entries of an updates object
MaxImages == 3        \* elements of an images array
MaxInvocations == 2   \* events the platform raises on its own account

Entry(key, value) == [key |-> key, value |-> value]

\* The finite sequences over S of length at most n.
SeqsUpTo(S, n) == UNION {[1..m -> S] : m \in 0..n}

\* An object has each key once; Object.entries lists them in insertion order.
DistinctKeys(entries) ==
    \A i, j \in 1..Len(entries) : entries[i].key = entries[j].key => i = j

ObjectsOver(S) == {Obj(e) : e \in {q \in SeqsUpTo(S, MaxEntries) : DistinctKeys(q)}}

Headers(authorization, auth) == [authorization |-> authorization, auth |-> auth]

\* A request that passes the gate of f, and one that does not.
Authorized(f) == Headers(Undef, Secrets[SecretName(f)])
Unauthorized == Headers(Undef, Undef)

ItemBody(collectionName, itemId, updates) ==
    [collectionName |-> collectionName, itemId |-> itemId, updates |-> updates]
BulkBody(folderName, images) == [folderName |-> folderName, images |-> images]
Image(imageName, publicUrl) == [imageName |-> imageName, publicUrl |-> publicUrl]

Url1 == "https://cdn.example/p/cat.PNG"
Url2 == "https://cdn.example/p/dog"

\* Header values around the two secrets: absent, empty, exact, other case, other.
HeaderValues ==
    {Undef, Str(""), Str("secret1"), Str("secret2"), Str("Secret1"), Str("SECRET2")}

SampleBody(f) ==
    IF f = "post_imageBulkUploader"
    THEN BulkBody(Str("uploads"), Arr(<<Image(Str("cat.png"), Str(Url1))>>))
    ELSE IF f = "post_uploadImageToItem"
    THEN ItemBody(Str(Collection), Str("i1"), Obj(<<Entry("image_photo", Str(Url1))>>))
    ELSE ItemBody(Str(Collection), Str("i1"),
                  Obj(<<Entry("title", Str("new")),
                        Entry("refs_tags", Arr(<<"r1", "r2">>))>>))

HttpFunctions == {"post_imageBulkUploader", "post_uploadImageToItem", "post_updateItemField"}

\* Every combination of the two headers, on a well-formed body.
GateRequests(f) ==
    {[headers |-> Headers(a, b), body |-> SampleBody(f)] : a \in HeaderValues, b \in HeaderValues}

\* Entries of updates for post_updateItemField: every prefix, values of every
\* type the safebool_ test distinguishes, keys that resolve to the same field.
UpdateEntries ==
    {Entry("safebool_a", v) : v \in {Bool(TRUE), Str("true"), Num(1), Str("1"),
                                      Bool(FALSE), Str("TRUE"), Num(2)}}
    \cup {Entry("refs_a", v) : v \in {Arr(<<"r1", "r2">>), Arr(<<"r2", "r1">>), Str("r1")}}
    \cup {Entry("refs_b", Arr(<<"r3">>)),
          Entry("date_a", Str("2024-05-01")),
          Entry("image_a", Str(Url1)),
          Entry("a", Str("x")),
          Entry("_id", Str("i2"))}

ItemIds == {Str("i1"), Str("i9"), Undef}
CollectionNames == {Str(Collection), Undef}

UpdateRequests ==
    {[headers |-> h, body |-> b] :
        h \in {Authorized("post_updateItemField"), Unauthorized},
        b \in {Undef} \cup
              {ItemBody(c, i, u) : c \in CollectionNames, i \in ItemIds,
                                   u \in {Undef} \cup ObjectsOver(UpdateEntries)}}

\* Entries of updates for post_uploadImageToItem.
UploadEntries ==
    {Entry("image_a", Str(Url1)), Entry("image_a", Str(Url2)),
     Entry("image_b", Str(Url1)), Entry("a", Str("x"))}

UploadRequests ==
    {[headers |-> h, body |-> b] :
        h \in {Authorized("post_uploadImageToItem"), Unauthorized},
        b \in {Undef} \cup
              {ItemBody(c, i, u) : c \in CollectionNames, i \in ItemIds,
                                   u \in {Undef} \cup ObjectsOver(UploadEntries)}}

\* Elements of images for post_imageBulkUploader.
Images ==
    {Image(Str("a.png"), Undef), Image(Undef, Null),
     Image(Undef, Str("")), Image(Undef, Str(Url1)), Image(Str("b.jpg"), Str(Url1)),
     Image(Undef, Str(Url2))}

BulkRequests ==
    {[headers |-> h, body |-> b] :
        h \in {Authorized("post_imageBulkUploader"), Unauthorized},
        b \in {Undef} \cup
              {BulkBody(f, i) : f \in {Str("uploads"), Undef},
                                i \in {Undef} \cup {Arr(q) : q \in SeqsUpTo(Images, MaxImages)}}}

\* Events the platform raises for files the HTTP functions did not import.
Contexts ==
    {Undef, EmptyObject,
     Obj([collectionName |-> Str(Collection), itemId |-> Str("i1")]),
     Obj([collectionName |-> Str(Collection), itemId |-> Str("i1"), fieldName |-> Str("a")]),
     Obj([collectionName |-> Str(Collection), itemId |-> Str("i1"), fieldName |-> Str("b")]),
     Obj([collectionName |-> Str(Collection), itemId |-> Str("i9"), fieldName |-> Str("a")])}

FileInfos ==
    {Undef, EmptyObject, Obj([fileUrl |-> Str(FileUrlOf(Url1))]),
     Obj([fileUrl |-> Str(FileUrlOf(Url2))])}

Events == {[context |-> c, fileInfo |-> f] : c \in Contexts, f \in FileInfos}

\* The platform raises an upload event for a file imported by other means.
PlatformEvent ==
    /\ Len(tasks) < MaxInvocations
    /\ \E version \in Versions, event \in Events : Invoke(version, event)
    /\ UNCHANGED <<platformVars, handlerVars>>

(***************************************************************************)
(* Specifications.                                                         *)
(***************************************************************************)
post_updateItemField ==
    \/ post_updateItemField_body
    \/ post_updateItemField_get
    \/ post_updateItemField_update
    \/ post_updateItemField_replaceReferences

post_uploadImageToItem ==
    \/ post_uploadImageToItem_body
    \/ post_uploadImageToItem_importFile

post_imageBulkUploader ==
    \/ post_imageBulkUploader_body
    \/ post_imageBulkUploader_importFile

Callbacks ==
    \/ \E i \in 1..Len(tasks) : CallbackGet(i)
    \/ \E i \in 1..Len(tasks) : CallbackUpdate(i)

\* The three HTTP functions behind the gate, every header combination.
Next ==
    \/ pc = "idle" /\ \E f \in HttpFunctions : \E r \in GateRequests(f) : Arrive(f, r)
    \/ AuthorizationCheck
    \/ post_updateItemField
    \/ post_uploadImageToItem
    \/ post_imageBulkUploader
    \/ FileUploaded
    \/ Callbacks

Spec == Init /\ [][Next]_vars

\* post_updateItemField on every updates object.
NextUpdate ==
    \/ pc = "idle" /\ \E r \in UpdateRequests : Arrive("post_updateItemField", r)
    \/ AuthorizationCheck
    \/ post_updateItemField

SpecUpdate == Init /\ [][NextUpdate]_vars

\* post_uploadImageToItem and the upload events of its imports.
NextUpload ==
    \/ pc = "idle" /\ \E r \in UploadRequests : Arrive("post_uploadImageToItem", r)
    \/ AuthorizationCheck
    \/ post_uploadImageToItem
    \/ FileUploaded
    \/ Callbacks

SpecUpload == Init /\ [][NextUpload]_vars

\* post_imageBulkUploader and the upload events of its imports (which carry no
\* complete context, so that no invocation of the event handler starts a chain).
NextBulk ==
    \/ pc = "idle" /\ \E r \in BulkRequests : Arrive("post_imageBulkUploader", r)
    \/ AuthorizationCheck
    \/ post_imageBulkUploader
    \/ FileUploaded

SpecBulk == Init /\ [][NextBulk]_vars

\* The event handler on events of every shape.
NextCallback ==
    \/ PlatformEvent
    \/ Callbacks

SpecCallback == Init /\ [][NextCallback]_vars

(***************************************************************************)
(* What the HTTP function has done so far.                                 *)
(***************************************************************************)
\* Its calls of one platform operation, in call order.
CallsOf(op) == SelectSeq(calls, LAMBDA c : c.op = op)

\* Its calls into the media manager and the data store.
DataCalls == SelectSeq(calls, LAMBDA c : c.op # "getSecret")

\* The gate has been evaluated.
GateDecided == pc \notin {"idle", "auth"}

SecretReadFailed == \E i \in 1..Len(calls) : calls[i].op = "getSecret" /\ calls[i].threw

\* The header value the gate compares: authorization, or auth when
\* authorization is absent (missing or empty).
HeaderValue ==
    IF req.headers.authorization \in {Undef, Str("")}
    THEN req.headers.auth
    ELSE req.headers.authorization

Rejected == pc = "done" /\ response = badRequest([error |-> NotAuthorized])

(***************************************************************************)
(* C1.  In each of the three HTTP functions, a request whose header value  *)
(* (authorization, or auth when authorization is absent) is not exactly    *)
(* the stored secret, or for which reading the secret fails, is answered   *)
(* 400 {error: "Not authorized"} with no media import, record get, record  *)
(* update or replaceReferences issued; a request whose value equals the    *)
(* secret is not answered so and goes on to the body.                      *)
(***************************************************************************)
C1_AuthorizationGate ==
    GateDecided =>
        /\ (HeaderValue # Secrets[SecretName(fn)] \/ SecretReadFailed) => Rejected
        /\ Rejected =>
              /\ DataCalls = <<>>
              /\ media = <<>> /\ store = InitialStore /\ references = <<>> /\ tasks = <<>>
        /\ (HeaderValue = Secrets[SecretName(fn)] /\ ~SecretReadFailed) => ~Rejected

\* A value that differs from the secret only in case has been turned away.
C1_Witness ==
    /\ fn = "post_uploadImageToItem"
    /\ req.headers.authorization = Str("Secret1")
    /\ Rejected

(***************************************************************************)
(* post_updateItemField: the request's updates and the record it writes.   *)
(***************************************************************************)
\* The entries of the request's updates object ({} when there is none).
UpdateEntriesOf ==
    IF req.body = Undef THEN <<>>
    ELSE IF req.body.updates = Undef THEN <<>>
    ELSE req.body.updates.v

\* The records passed to the main wixData.update (at most one per request).
UpdateCalls == CallsOf("update")

\* The field of the record an entry's key is written to by the reduce; refs_
\* keys are written to none.
WritesField(key) ==
    IF StartsWith(key, "date_") THEN RemoveFirst(key, "date_")
    ELSE IF StartsWith(key, "safebool_") THEN RemoveFirst(key, "safebool_")
    ELSE key

Writes(key) == ~StartsWith(key, "refs_")

\* Entry i is the last entry of updates written to field k.
LastWriter(entries, i, k) ==
    /\ Writes(entries[i].key) /\ WritesField(entries[i].key) = k
    /\ \A j \in (i + 1)..Len(entries) :
          ~(Writes(entries[j].key) /\ WritesField(entries[j].key) = k)

\* Some entry of updates other than i is written to field k.
OtherWriter(entries, i, k) ==
    \E j \in 1..Len(entries) :
        j # i /\ Writes(entries[j].key) /\ WritesField(entries[j].key) = k

\* entries without entry i
Without(entries, i) == SubSeq(entries, 1, i - 1) \o SubSeq(entries, i + 1, Len(entries))

(***************************************************************************)
(* C2 as stated.  The record passed to the main wixData.update has no key  *)
(* starting with image_ or refs_ that was taken from updates.              *)
(***************************************************************************)
C2_NoImageOrRefsKeyVerbatim ==
    \A c \in 1..Len(UpdateCalls) : \A i \in 1..Len(UpdateEntriesOf) :
        LET key == UpdateEntriesOf[i].key
            item == UpdateCalls[c].item
        IN (StartsWith(key, "image_") \/ StartsWith(key, "refs_")) =>
              ~(key \in DOMAIN item /\ item[key] = UpdateEntriesOf[i].value)

(***************************************************************************)
(* C2, amended.  A key of updates starting with refs_ is never stored      *)
(* verbatim in the record passed to the main wixData.update: the record    *)
(* has that key only if the existing record had it or another entry is     *)
(* written to it.  A key starting with image_ is not intercepted:          *)
(* post_updateItemField has no image_ branch, and the entry is stored      *)
(* under its literal key, prefix included, with the URL as its value       *)
(* (unless a later entry is written to the same key).                      *)
(***************************************************************************)
C2_RefsInterceptedImagePassedThrough ==
    \A c \in 1..Len(UpdateCalls) : \A i \in 1..Len(UpdateEntriesOf) :
        LET key == UpdateEntriesOf[i].key
            item == UpdateCalls[c].item
        IN /\ StartsWith(key, "refs_") =>
                 (key \in DOMAIN item =>
                     key \in DOMAIN Fields(existingItem) \/ OtherWriter(UpdateEntriesOf, i, key))
           /\ (StartsWith(key, "image_") /\ LastWriter(UpdateEntriesOf, i, key)) =>
                 (key \in DOMAIN item /\ item[key] = UpdateEntriesOf[i].value)

\* The main update has been called for updates with a refs_ and an image_ key.
C2_Witness ==
    /\ Len(UpdateCalls) = 1
    /\ \E i, j \in 1..Len(UpdateEntriesOf) :
          /\ StartsWith(UpdateEntriesOf[i].key, "refs_")
          /\ StartsWith(UpdateEntriesOf[j].key, "image_")

(***************************************************************************)
(* C3.  For every entry refs_<k> of updates whose value is a list of ids:  *)
(* the entry writes nothing to the record passed to the main update (the   *)
(* record is the one the request without that entry would pass, so key k   *)
(* does not get the ids from it), at no time has more than one             *)
(* replaceReferences call been made for field k, every such call is for    *)
(* item itemId and carries exactly the given ids in the given order, and   *)
(* a request answered 200 has made exactly one.                            *)
(***************************************************************************)
RefsCallsFor(k) == SelectSeq(calls, LAMBDA c : c.op = "replaceReferences" /\ c.fieldName = k)

C3_RefsDeferredToReplaceReferences ==
    fn = "post_updateItemField" =>
        \A i \in 1..Len(UpdateEntriesOf) :
            LET key == UpdateEntriesOf[i].key
                value == UpdateEntriesOf[i].value
                k == RemoveFirst(key, "refs_")
            IN (StartsWith(key, "refs_") /\ IsArray(value)) =>
                  /\ \A c \in 1..Len(UpdateCalls) :
                        /\ UpdateCalls[c].item =
                              Spread(Fields(existingItem), Clean(Without(UpdateEntriesOf, i)).acc)
                        /\ (k \in DOMAIN UpdateCalls[c].item /\ UpdateCalls[c].item[k] = value) =>
                              \/ (k \in DOMAIN Fields(existingItem) /\ Fields(existingItem)[k] = value)
                              \/ OtherWriter(UpdateEntriesOf, i, k)
                  /\ Len(RefsCallsFor(k)) <= 1
                  /\ \A c \in 1..Len(RefsCallsFor(k)) :
                        /\ RefsCallsFor(k)[c].itemId = req.body.itemId
                        /\ RefsCallsFor(k)[c].ids = value
                  /\ (pc = "done" /\ response.status = 200) =>
                        /\ Len(RefsCallsFor(k)) = 1
                        /\ ~RefsCallsFor(k)[1].threw
                        /\ references[<<req.body.itemId.v, k>>] = value.v

\* A request with refs_a: [r2, r1] and a plain key a has been answered 200.
C3_Witness ==
    /\ pc = "done" /\ response.status = 200
    /\ \E i, j \in 1..Len(UpdateEntriesOf) :
          /\ UpdateEntriesOf[i] = Entry("refs_a", Arr(<<"r2", "r1">>))
          /\ UpdateEntriesOf[j].key = "a"
    /\ Len(UpdateCalls) = 1
    /\ Len(RefsCallsFor("a")) = 1

(***************************************************************************)
(* C4.  For every entry safebool_<k>: v of updates, the reduce stores      *)
(* under key k (the key without the prefix) the boolean true when v is     *)
(* boolean true, string "true", number 1 or string "1", and the boolean    *)
(* false for any other v; the record passed to the main update holds that  *)
(* boolean under k (when no later entry of updates is written to k too).   *)
(***************************************************************************)
AcceptedAsTrue == {Bool(TRUE), Str("true"), Num(1), Str("1")}

C4_SafeBoolCoercion ==
    (fn = "post_updateItemField" /\ existingItem # Undef /\ ~NotFound(existingItem)) =>
        \A i \in 1..Len(UpdateEntriesOf) :
            LET key == UpdateEntriesOf[i].key
                value == UpdateEntriesOf[i].value
                k == RemoveFirst(key, "safebool_")
                stored == Bool(value \in AcceptedAsTrue)
            IN StartsWith(key, "safebool_") =>
                  /\ k \in DOMAIN Clean(SubSeq(UpdateEntriesOf, 1, i)).acc
                  /\ Clean(SubSeq(UpdateEntriesOf, 1, i)).acc[k] = stored
                  /\ LastWriter(UpdateEntriesOf, i, k) =>
                        /\ k \in DOMAIN cleanedUpdates /\ cleanedUpdates[k] = stored
                        /\ k \in DOMAIN updatedItem /\ updatedItem[k] = stored
                        /\ \A c \in 1..Len(UpdateCalls) :
                              /\ k \in DOMAIN UpdateCalls[c].item
                              /\ UpdateCalls[c].item[k] = stored
                              /\ key \notin DOMAIN UpdateCalls[c].item

\* safebool_a: "1" has been written as a = true, safebool_a: 2 as a = false.
C4_Witness ==
    /\ Len(UpdateCalls) = 1 /\ ~UpdateCalls[1].threw
    /\ \E i \in 1..Len(UpdateEntriesOf) :
          /\ UpdateEntriesOf[i].key = "safebool_a"
          /\ UpdateEntriesOf[i].value = Num(2)
          /\ store["i1"]["a"] = Bool(FALSE)

(***************************************************************************)
(* C10.  When wixData.get yields no record for collectionName/itemId,      *)
(* post_updateItemField answers 400 {error: message}, calls neither        *)
(* wixData.update nor replaceReferences, and leaves the store unchanged.   *)
(***************************************************************************)
GotNoRecord ==
    \E i \in 1..Len(calls) : calls[i].op = "get" /\ IsNullish(calls[i].result)

C10_NotFound ==
    (fn = "post_updateItemField" /\ GotNoRecord) =>
        /\ pc = "done"
        /\ response = badRequest([error |-> NotFoundMessage(req.body.itemId.v,
                                                           req.body.collectionName.v)])
        /\ UpdateCalls = <<>>
        /\ CallsOf("replaceReferences") = <<>>
        /\ store = InitialStore
        /\ references = <<>>

\* A request for item i9, which the collection does not have, with updates
\* that carry a plain field and a reference field.
C10_Witness ==
    /\ fn = "post_updateItemField" /\ GotNoRecord
    /\ req.body.itemId = Str("i9")
    /\ \E i, j \in 1..Len(UpdateEntriesOf) :
          /\ UpdateEntriesOf[i].key = "a"
          /\ UpdateEntriesOf[j] = Entry("refs_b", Arr(<<"r3">>))

(***************************************************************************)
(* post_imageBulkUploader: the request's images and the imports made.      *)
(***************************************************************************)
ImportCalls == CallsOf("importFile")

\* The body passed the check of folderName and images.
BulkBodyAccepted ==
    /\ fn = "post_imageBulkUploader" /\ pc \notin {"idle", "auth", "body"}
    /\ ~Rejected
    /\ req.body # Undef
    /\ req.body.folderName \notin {Undef, Null, Str("")}
    /\ req.body.images # Undef

\* publicUrl is present: neither absent nor null (nor the empty string).
Present(publicUrl) == publicUrl \notin {Undef, Null, Str("")}

\* The publicUrl of the images that have one, in input order.
PresentUrls(images) ==
    LET kept == SelectSeq(images, LAMBDA image : Present(image.publicUrl))
    IN [i \in 1..Len(kept) |-> kept[i].publicUrl.v]

IsPrefix(p, q) == Len(p) <= Len(q) /\ p = SubSeq(q, 1, Len(p))

SomeImportFailed == \E i \in 1..Len(ImportCalls) : ImportCalls[i].threw

(***************************************************************************)
(* C5.  post_imageBulkUploader, when every import it issues succeeds,      *)
(* answers 200 with success true and an uploaded list that has exactly     *)
(* one entry per input image whose publicUrl is present, in input order,   *)
(* with originalUrl that publicUrl; an image whose publicUrl is absent or  *)
(* null causes no import call, no entry of uploaded and no error.          *)
(***************************************************************************)
C5_BulkUploadSkipsMissingUrl ==
    BulkBodyAccepted =>
        LET wanted == PresentUrls(req.body.images.v)
        IN /\ IsPrefix([i \in 1..Len(ImportCalls) |-> ImportCalls[i].file.url], wanted)
           /\ (pc = "done" /\ ~SomeImportFailed) =>
                 /\ response.status = 200
                 /\ response.body.success = TRUE
                 /\ [i \in 1..Len(response.body.uploaded) |->
                        response.body.uploaded[i].originalUrl] = wanted
                 /\ Len(ImportCalls) = Len(wanted)

\* images = [{publicUrl: null}, {imageName: "b.jpg", publicUrl: Url1}] answered.
C5_Witness ==
    /\ BulkBodyAccepted /\ pc = "done" /\ ~SomeImportFailed
    /\ req.body.images = Arr(<<Image(Undef, Null), Image(Str("b.jpg"), Str(Url1))>>)
    /\ Len(response.body.uploaded) = 1

(***************************************************************************)
(* C6.  post_imageBulkUploader, when the import of an image fails: issues  *)
(* no import for any later image, answers 400 {error: message} without an  *)
(* uploaded list, and the imports completed for the earlier images stay    *)
(* in the media manager.                                                   *)
(***************************************************************************)
C6_BulkUploadAbortsOnFailure ==
    (fn = "post_imageBulkUploader" /\ SomeImportFailed) =>
        /\ ImportCalls[Len(ImportCalls)].threw
        /\ \A i \in 1..(Len(ImportCalls) - 1) : ~ImportCalls[i].threw
        /\ pc = "done"
        /\ response = badRequest([error |-> PlatformError])
        /\ media = [i \in 1..(Len(ImportCalls) - 1) |-> ImportCalls[i].file]
        /\ Len(ImportCalls) <= Len(PresentUrls(req.body.images.v))

\* The second of three imports has failed: one file is kept, the third image
\* was never imported.
C6_Witness ==
    /\ fn = "post_imageBulkUploader" /\ SomeImportFailed
    /\ Len(ImportCalls) = 2
    /\ Len(media) = 1
    /\ Len(PresentUrls(req.body.images.v)) > 2

(***************************************************************************)
(* post_uploadImageToItem: the request's image_ entries and the imports.   *)
(***************************************************************************)
\* The body passed the check of collectionName, itemId and updates.
UploadBodyAccepted ==
    /\ fn = "post_uploadImageToItem" /\ pc \notin {"idle", "auth", "body"}
    /\ ~Rejected
    /\ req.body # Undef
    /\ req.body.collectionName # Undef /\ req.body.itemId # Undef /\ req.body.updates # Undef

\* The entries of updates whose key has the image_ prefix, in their order.
ImageEntries ==
    SelectSeq(UpdateEntriesOf, LAMBDA e : Len(e.key) >= 6 /\ SubSeq(e.key, 1, 6) = "image_")

\* The import the entry image_<field>: url asks for.
WantedImport(e) ==
    [url |-> e.value.v,
     folder |-> "/" \o req.body.collectionName.v,
     context |-> Obj([collectionName |-> req.body.collectionName,
                      itemId |-> req.body.itemId,
                      fieldName |-> Str(SubSeq(e.key, 7, Len(e.key)))])]

MadeImport(c) == [url |-> c.file.url, folder |-> c.file.folder, context |-> c.file.context]

\* No invocation of the event handler has read or written a record yet.
NoCallbackHasActed == \A i \in 1..Len(tasks) : tasks[i].ops = <<>>

(***************************************************************************)
(* C7.  post_uploadImageToItem, for an authorized request with             *)
(* collectionName, itemId and updates: issues the imports one per          *)
(* image_<field> key, in the order of the entries of updates, each with    *)
(* context {collectionName, itemId, fieldName = <field>}; other keys cause *)
(* no call; the handler itself makes no record read and no record write;   *)
(* and once all imports are issued (none rejected) it answers              *)
(* 200 {success: true}, with exactly one import per image_ key made.       *)
(***************************************************************************)
C7_UploadIssuesImportsAndReturns ==
    fn = "post_uploadImageToItem" =>
        /\ DataCalls = ImportCalls
        /\ \A i \in 1..Len(writes) : writes[i].by # 0
        /\ references = <<>>
        /\ UploadBodyAccepted =>
              /\ IsPrefix([i \in 1..Len(ImportCalls) |-> MadeImport(ImportCalls[i])],
                          [i \in 1..Len(ImageEntries) |-> WantedImport(ImageEntries[i])])
              /\ (pc = "done" /\ ~SomeImportFailed) =>
                    /\ response = ok([success |-> TRUE])
                    /\ Len(ImportCalls) = Len(ImageEntries)
                    /\ Len(media) = Len(ImageEntries)
              /\ (pc = "done" /\ response.status = 200) => ~SomeImportFailed

\* Answered 200 for image_a, a, image_b while no upload event has been handled:
\* the record is as it was.
C7_Witness ==
    /\ UploadBodyAccepted /\ pc = "done" /\ response = ok([success |-> TRUE])
    /\ Len(UpdateEntriesOf) = 3
    /\ UpdateEntriesOf[1].key = "image_a" /\ UpdateEntriesOf[2].key = "a"
    /\ UpdateEntriesOf[3].key = "image_b"
    /\ Len(ImportCalls) = 2
    /\ NoCallbackHasActed /\ store = InitialStore

(***************************************************************************)
(* wixMediaManager_onFileUploaded: the events handled.                     *)
(***************************************************************************)
HasField(o, k) ==
    /\ o \notin {Undef, Null}
    /\ k \in DOMAIN o.v
    /\ o.v[k] \notin {Undef, Null, Str("")}

\* context.collectionName, context.itemId, context.fieldName and
\* fileInfo.fileUrl are all present.
AllPresent(event) ==
    /\ HasField(event.context, "collectionName")
    /\ HasField(event.context, "itemId")
    /\ HasField(event.context, "fieldName")
    /\ HasField(event.fileInfo, "fileUrl")

(***************************************************************************)
(* C8.  wixMediaManager_onFileUploaded reads and writes the record only    *)
(* for an event in which context.collectionName, context.itemId,           *)
(* context.fieldName and fileInfo.fileUrl are all present; for every other *)
(* event, one without any context included, it makes no record get and no  *)
(* record update and ends without raising an error.                        *)
(***************************************************************************)
C8_CallbackGuard ==
    \A i \in 1..Len(tasks) :
        /\ tasks[i].ops # <<>> => AllPresent(tasks[i].event)
        /\ ~AllPresent(tasks[i].event) => (tasks[i].ops = <<>> /\ tasks[i].pc = "skipped")

(***************************************************************************)
(* C9: two invocations of wixMediaManager_onFileUploaded with the same     *)
(* context that both succeed.                                              *)
(***************************************************************************)
FileUrl(i) == Prop(tasks[i].event.fileInfo, "fileUrl")
ItemOf(i) == Prop(tasks[i].event.context, "itemId").v
FieldOf(i) == Prop(tasks[i].event.context, "fieldName").v

\* The position of invocation i's update among the updates applied.
WriteIndex(i) == CHOOSE k \in 1..Len(writes) : writes[k].by = i

\* Invocations i and j, i before j, of the same context have both succeeded,
\* and no other update has been applied.
BothSucceeded(i, j) ==
    /\ i < j
    /\ tasks[i].pc = "done" /\ tasks[j].pc = "done"
    /\ tasks[i].event.context = tasks[j].event.context
    /\ \A k \in 1..Len(writes) : writes[k].by \in {i, j}

(***************************************************************************)
(* C9 as stated.  After both invocations succeed the field holds the file  *)
(* URL of the second invocation.                                           *)
(***************************************************************************)
C9_SecondInvocationWins ==
    \A i, j \in 1..Len(tasks) :
        BothSucceeded(i, j) => store[ItemOf(j)][FieldOf(j)] = FileUrl(j)

(***************************************************************************)
(* C9, amended.  Two invocations with the same context that both succeed   *)
(* make two independent get-then-update overwrites of the field, and the   *)
(* field finally holds the file URL of the invocation whose update was     *)
(* applied last (last write wins): the second invocation's when its update *)
(* is applied after the first's, the first invocation's otherwise.         *)
(***************************************************************************)
C9_LastWriteWins ==
    \A i, j \in 1..Len(tasks) :
        BothSucceeded(i, j) =>
            /\ tasks[i].ops = <<"get", "update">>
            /\ tasks[j].ops = <<"get", "update">>
            /\ Len(writes) = 2
            /\ store[ItemOf(j)][FieldOf(j)] =
                  IF WriteIndex(i) < WriteIndex(j) THEN FileUrl(j) ELSE FileUrl(i)

\* Both invocations succeeded, with different file URLs, and the field holds
\* the URL of the first.
C9_Witness ==
    /\ Len(tasks) >= 2
    /\ BothSucceeded(1, 2)
    /\ FileUrl(1) # FileUrl(2)
    /\ store[ItemOf(1)][FieldOf(1)] = FileUrl(1)

(***************************************************************************)
(* C11: two invocations of wixMediaManager_onFileUploaded for the same     *)
(* record and different fields.                                            *)
(***************************************************************************)
\* Invocations i and j, for the same record and different fields, have both
\* succeeded, the update of i was applied before that of j, and no update of
\* that record was applied after that of j.
SucceededInOrder(i, j) ==
    /\ i # j
    /\ tasks[i].pc = "done" /\ tasks[j].pc = "done"
    /\ ItemOf(i) = ItemOf(j)
    /\ FieldOf(i) # FieldOf(j)
    /\ WriteIndex(i) < WriteIndex(j)
    /\ \A k \in (WriteIndex(j) + 1)..Len(writes) : writes[k].item["_id"].v # ItemOf(j)

\* Invocation j read the record after the update of invocation i was applied:
\* the record it passes to wixData.update holds the file URL of i.
ReadAfterUpdateOf(j, i) ==
    /\ FieldOf(i) \in DOMAIN tasks[j].item
    /\ tasks[j].item[FieldOf(i)] = FileUrl(i)

\* Field k of the record id is as it was before any request.
AsInitially(id, k) ==
    IF k \in DOMAIN InitialStore[id]
    THEN k \in DOMAIN store[id] /\ store[id][k] = InitialStore[id][k]
    ELSE k \notin DOMAIN store[id]

(***************************************************************************)
(* C11.  Two completion callbacks for the same record and different        *)
(* fields, issued by one post_uploadImageToItem request, that both report  *)
(* success: the record finally is the whole record the later update        *)
(* passed (what that invocation read, plus its own field; no version check *)
(* rejects it), so the field of the later update holds its file URL, and   *)
(* the field of the earlier update holds its file URL only when the later  *)
(* invocation read the record after the earlier update; when both reads    *)
(* precede both updates the earlier field is as it was before the request  *)
(* (a lost update).  "Every image_<field> of the request is set once all   *)
(* callbacks succeed" is therefore not an invariant: C11_Witness is a      *)
(* reachable state in which it fails.                                      *)
(***************************************************************************)
C11_LostUpdate ==
    fn = "post_uploadImageToItem" =>
        \A i, j \in 1..Len(tasks) :
            SucceededInOrder(i, j) =>
                /\ tasks[i].ops = <<"get", "update">>
                /\ tasks[j].ops = <<"get", "update">>
                /\ store[ItemOf(j)] = tasks[j].item
                /\ store[ItemOf(j)][FieldOf(j)] = FileUrl(j)
                /\ IF ReadAfterUpdateOf(j, i)
                   THEN store[ItemOf(i)][FieldOf(i)] = FileUrl(i)
                   ELSE AsInitially(ItemOf(i), FieldOf(i))

\* One request with image_a and image_b for record i1 was answered 200, both
\* callbacks succeeded, and the record holds the file of b but not that of a.
C11_Witness ==
    /\ fn = "post_uploadImageToItem" /\ pc = "done" /\ response = ok([success |-> TRUE])
    /\ Len(media) = 2 /\ delivered = {1, 2}
    /\ Len(tasks) = 2 /\ tasks[1].pc = "done" /\ tasks[2].pc = "done"
    /\ ItemOf(1) = "i1" /\ ItemOf(2) = "i1"
    /\ {FieldOf(1), FieldOf(2)} = {"a", "b"}
    /\ Len(writes) = 2
    /\ store["i1"]["b"] = Str(FileUrlOf(Url1))
    /\ store["i1"]["a"] = Str("old")

(***************************************************************************)
(* C12: post_updateItemField, the main update and the reference            *)
(* operations.                                                             *)
(***************************************************************************)
RefsCalls == CallsOf("replaceReferences")

\* The reference operations the request asks for: one per refs_ key of updates
\* whose value is a list, in the order of the keys.
RefsEntries ==
    SelectSeq(UpdateEntriesOf, LAMBDA e : StartsWith(e.key, "refs_") /\ IsArray(e.value))

WantedRefs ==
    [i \in 1..Len(RefsEntries) |->
        [fieldName |-> RemoveFirst(RefsEntries[i].key, "refs_"), ids |-> RefsEntries[i].value]]

MadeRefs ==
    [i \in 1..Len(RefsCalls) |-> [fieldName |-> RefsCalls[i].fieldName, ids |-> RefsCalls[i].ids]]

\* The main update was called and succeeded.
MainUpdatePersisted == Len(UpdateCalls) = 1 /\ ~UpdateCalls[1].threw

\* The store holds the record the main update passed, and nothing else changed.
StoreAfterMainUpdate ==
    /\ store = [InitialStore EXCEPT ![UpdateCalls[1].item["_id"].v] = UpdateCalls[1].item]
    /\ writes = <<[by |-> 0, item |-> UpdateCalls[1].item]>>

(***************************************************************************)
(* C12.  In post_updateItemField the main update is called, and persisted, *)
(* before any replaceReferences call; the replaceReferences calls are made *)
(* one after the other in the order the refs_ keys appear in updates; when *)
(* the j-th of them fails it is the last call made, the main update and    *)
(* the operations 1..j-1 stay persisted, no later operation is issued and  *)
(* the response is HTTP 400; when the main update fails no reference       *)
(* operation is issued (and the response is HTTP 400).                     *)
(***************************************************************************)
C12_UpdateThenReferencesInOrder ==
    fn = "post_updateItemField" =>
        /\ Len(UpdateCalls) <= 1
        /\ \A p, q \in 1..Len(calls) :
              (calls[p].op = "update" /\ calls[q].op = "replaceReferences") => p < q
        /\ RefsCalls # <<>> => MainUpdatePersisted
        /\ MainUpdatePersisted => StoreAfterMainUpdate
        /\ IsPrefix(MadeRefs, WantedRefs)
        /\ \A c \in 1..Len(RefsCalls) :
              IF RefsCalls[c].threw
              THEN /\ c = Len(RefsCalls)
                   /\ calls[Len(calls)] = RefsCalls[c]
                   /\ pc = "done" /\ response.status = 400
              ELSE /\ <<req.body.itemId.v, RefsCalls[c].fieldName>> \in DOMAIN references
                   /\ references[<<req.body.itemId.v, RefsCalls[c].fieldName>>] = RefsCalls[c].ids.v
        /\ DOMAIN references =
              {<<req.body.itemId.v, RefsCalls[c].fieldName>> :
                  c \in {d \in 1..Len(RefsCalls) : ~RefsCalls[d].threw}}
        /\ (UpdateCalls # <<>> /\ UpdateCalls[1].threw) =>
              /\ RefsCalls = <<>>
              /\ calls[Len(calls)] = UpdateCalls[1]
              /\ pc = "done" /\ response.status = 400
              /\ store = InitialStore /\ writes = <<>> /\ references = <<>>
        /\ (pc = "done" /\ response.status = 200) =>
              /\ MainUpdatePersisted
              /\ MadeRefs = WantedRefs

\* updates {a, refs_a, refs_b}: the main update and the first reference
\* operation are persisted, the second failed, and the response is 400.
C12_Witness ==
    /\ fn = "post_updateItemField" /\ pc = "done" /\ response.status = 400
    /\ Len(WantedRefs) = 2
    /\ WantedRefs[1].fieldName = "a" /\ WantedRefs[2].fieldName = "b"
    /\ Len(RefsCalls) = 2
    /\ ~RefsCalls[1].threw /\ RefsCalls[2].threw
    /\ store["i1"]["a"] = Str("x")
    /\ DOMAIN references = {<<"i1", "a">>}

(***************************************************************************)
(* C13.  In post_updateItemField the record passed to the main             *)
(* wixData.update is the record the request's itemId names: for every      *)
(* updates object, one with a plain _id key included, its _id equals       *)
(* itemId, so the main update and the replaceReferences calls are for the  *)
(* same item, and no other record of the collection is modified.           *)
(***************************************************************************)
C13_UpdateTargetsItemId ==
    fn = "post_updateItemField" =>
        /\ \A c \in 1..Len(UpdateCalls) :
              /\ "_id" \in DOMAIN UpdateCalls[c].item
              /\ UpdateCalls[c].item["_id"] = req.body.itemId
              /\ \A d \in 1..Len(RefsCalls) : RefsCalls[d].itemId = UpdateCalls[c].item["_id"]
        /\ \A id \in DOMAIN store :
              store[id] # InitialStore[id] => Str(id) = req.body.itemId

====
